---- MODULE Spec2Model ----
(***************************************************************************)
(* The GstMixer interface of gst-libs/gst/mixer/mixer.c: the seven virtual *)
(* function wrappers (the facade), the four notification functions and the *)
(* signal emissions they make, over one mixer element with two tracks and  *)
(* one options group.                                                      *)
(*                                                                         *)
(* Pointers are addresses: NULL is address 0, a GList is the address of    *)
(* its first node, a gchar* the address of a string.  The control state is *)
(* a call stack, so that "before the call returns" and "before the next    *)
(* handler begins" are states of the model.                                *)
(*                                                                         *)
(* Spec runs the facade and the notifications on a registered interface    *)
(* with its handlers connected; SpecObs lets observers connect and         *)
(* disconnect between calls; SpecReentrant lets a handler call back into   *)
(* the mixer; SpecInit runs gst_mixer_get_type and gst_mixer_class_init    *)
(* from the program's load.                                                *)
(***************************************************************************)
EXTENDS Integers, Sequences, FiniteSets, TLC

\* ------------------------------------------------------------------ bounds
\* Top-level calls (facade calls and hardware events) in one behaviour.
MaxCalls == 2
\* Connections and disconnections of handlers in one behaviour.
MaxConns == 3
\* Calls made from inside a handler in one behaviour.
MaxNest == 1
\* Runs of the type function, the class initialiser and the elements'
\* interface initialisers in one behaviour.
MaxInits == 5
\* Handlers connected to each signal of each instance.
MaxHandlers == 2
\* Cells of the caller's array past track->num_channels that are watched.
Slack == 1

\* ------------------------------------------------------- program constants
NULL == 0

\* The enum of lines 29-36, without LAST_SIGNAL.
SignalEnum ==
  {"SIGNAL_MUTE_TOGGLED", "SIGNAL_RECORD_TOGGLED",
   "SIGNAL_VOLUME_CHANGED", "SIGNAL_OPTION_CHANGED"}

\* The seven virtual functions of GstMixerClass (lines 110-116).
Slots ==
  {"list_tracks", "set_volume", "get_volume", "set_mute",
   "set_record", "set_option", "get_option"}

\* ----------------------------------------------------------- the universe
Tracks == {"T1", "T2"}
OptionGroups == {"O1"}
Entities == Tracks \cup OptionGroups

\* track->num_channels, read at line 189.
num_channels == [t \in Tracks |-> IF t = "T1" THEN 1 ELSE 2]

\* Volumes a channel can be set to; none is 0, so a zero fill shows.
Volumes == {50, 80}
VolumeArrays(t) == [1..num_channels[t] -> Volumes]

\* The strings of the options group; a value token is the address of one.
Strings == <<"line-in", "microphone">>
ValueTokens == 1..Len(Strings)

\* A cell no store has written: not a volume and not 0.
Uninit == 0 - 1

\* The device's track list as GList nodes: address |-> [data, next].
GListNodes ==
  [a \in {1, 2} |-> IF a = 1 THEN [data |-> "T1", next |-> 2]
                             ELSE [data |-> "T2", next |-> NULL]]

\* The elements of the GList at address p; NULL is the list of no elements.
RECURSIVE GListToSeq(_)
GListToSeq(p) ==
  IF p = NULL THEN <<>>
  ELSE <<GListNodes[p].data>> \o GListToSeq(GListNodes[p].next)

\* The classes of device the model runs: which slots the element installs.
DeviceClasses ==
  { {},
    Slots,
    {"list_tracks", "get_volume", "set_mute", "set_option"},
    {"set_volume", "set_record", "get_option"} }

\* --------------------------------------------------------------- signals
\* The names gst_mixer_class_init registers on GST_TYPE_MIXER, in the order
\* of its g_signal_new calls; a signal's id is its place in the table.
ClassInitTable ==
  <<"record-toggled", "mute-toggled", "volume-changed", "option-changed">>

\* g_signal_new's return value: the id of the signal just registered.
SignalId(table, name) == CHOOSE i \in 1..Len(table) : table[i] = name

\* Mutant: the results of the first two g_signal_new calls are stored in
\* source order of the enum, not at the index of their own signal.
ClassInitSignalsSwapped ==
  [s \in SignalEnum |->
     CASE s = "SIGNAL_MUTE_TOGGLED" -> SignalId(ClassInitTable, "record-toggled")
       [] s = "SIGNAL_RECORD_TOGGLED" -> SignalId(ClassInitTable, "mute-toggled")
       [] s = "SIGNAL_VOLUME_CHANGED" -> SignalId(ClassInitTable, "volume-changed")
       [] s = "SIGNAL_OPTION_CHANGED" -> SignalId(ClassInitTable, "option-changed")]

\* gst_mixer_signals[] after gst_mixer_class_init: each g_signal_new result
\* is stored at the enum index written on the left of its assignment.
ClassInitSignals ==
  [s \in SignalEnum |->
     CASE s = "SIGNAL_RECORD_TOGGLED" -> SignalId(ClassInitTable, "record-toggled")
       [] s = "SIGNAL_MUTE_TOGGLED" -> SignalId(ClassInitTable, "mute-toggled")
       [] s = "SIGNAL_VOLUME_CHANGED" -> SignalId(ClassInitTable, "volume-changed")
       [] s = "SIGNAL_OPTION_CHANGED" -> SignalId(ClassInitTable, "option-changed")]

\* The signals of a GstMixerTrack and of a GstMixerOptions: the ones the
\* notification functions emit by name on them.
EntitySignals(e) ==
  IF e \in Tracks THEN {"mute-toggled", "record-toggled", "volume-changed"}
  ELSE {"value-changed"}

\* A signal name as the signal system looks it up: '_' and '-' are the same.
Canon(name) ==
  CASE name = "mute_toggled" -> "mute-toggled"
    [] name = "record_toggled" -> "record-toggled"
    [] name = "volume_changed" -> "volume-changed"
    [] name = "value_changed" -> "value-changed"
    [] OTHER -> name

\* The (instance, signal) pairs a handler can be connected to.
Connectable ==
  {<<"mixer", ClassInitTable[i]>> : i \in 1..Len(ClassInitTable)}
    \cup UNION {{<<e, s>> : s \in EntitySignals(e)} : e \in Entities}

\* ------------------------------------------------------------------ state
VARIABLES
  klass,              \* GstMixerClass: slot |-> TRUE when the pointer is set
  mixer_type,         \* klass->mixer_type
  gst_mixer_type,     \* the static GType of gst_mixer_get_type; 0 before
  initialized,        \* the static gboolean of gst_mixer_class_init
  g_types,            \* the names registered with the type system, by id
  gst_mixer_signals,  \* the static array of line 40: enum |-> signal id
  signal_table,       \* the signals registered on GST_TYPE_MIXER, by id
  handlers,           \* (instance, signal) |-> the connected handlers, in order
  faulty,             \* the handlers that fail whenever they run
  conns,              \* the connections and disconnections made so far
  mute,               \* device state: track |-> muted
  record,             \* device state: track |-> recording
  volume,             \* device state: track |-> volume of each channel
  option,             \* device state: options group |-> current value token
  buf,                \* the caller's gint* array of the last volume call
  ret,                \* what the last list_tracks / get_option call returned
  stack,              \* the call stack, innermost frame last
  trace,              \* the top-level calls made so far
  log,                \* the handler runs so far
  invs                \* the notification function calls so far

devVars == <<mute, record, volume, option>>
classVars ==
  <<klass, mixer_type, gst_mixer_type, initialized, g_types,
    gst_mixer_signals, signal_table>>
obsVars == <<handlers, faulty, conns>>
vars ==
  <<klass, mixer_type, gst_mixer_type, initialized, g_types,
    gst_mixer_signals, signal_table, handlers, faulty, conns, mute, record,
    volume, option, buf, ret, stack, trace, log, invs>>

\* The device's state before anything has set it, and no call made.
InitDevice ==
  /\ mute = [t \in Tracks |-> FALSE]
  /\ record = [t \in Tracks |-> FALSE]
  /\ volume = [t \in Tracks |-> [i \in 1..num_channels[t] |-> 50]]
  /\ option = [o \in OptionGroups |-> 1]
  /\ buf = <<>>
  /\ ret = [type |-> "void", ptr |-> NULL]
  /\ stack = <<>>
  /\ trace = <<>>
  /\ log = <<>>
  /\ invs = <<>>

\* The interface is registered and initialised: the type has its id, the
\* four signals theirs, and the class of the element the slots it installs.
InitClass(c) ==
  /\ klass = [s \in Slots |-> s \in c]
  /\ mixer_type = "GST_MIXER_SOFTWARE"
  /\ gst_mixer_type = 1
  /\ initialized = TRUE
  /\ g_types = <<"GstMixer">>
  /\ gst_mixer_signals = ClassInitSignals
  /\ signal_table = ClassInitTable

\* gst_mixer_class_init leaves every slot NULL; the element's own interface
\* initialiser then installs the slots of its class.
Init ==
  /\ \E c \in DeviceClasses : InitClass(c)
  /\ \E n \in 0..MaxHandlers :
       /\ handlers = [c \in Connectable |-> [i \in 1..n |-> i]]
       /\ faulty \in SUBSET (1..n)
  /\ conns = <<>>
  /\ InitDevice

\* No call is running and the caller may make another.
Idle == stack = <<>> /\ Len(trace) < MaxCalls

Call(op, kind, ent, val, returned) ==
  [op |-> op, kind |-> kind, ent |-> ent, val |-> val, returned |-> returned]

Frame(fn, pc, kind, ent, val) ==
  [fn |-> fn, pc |-> pc, kind |-> kind, ent |-> ent, val |-> val,
   inv |-> 0, step |-> 0, pos |-> 0, err |-> FALSE]

Top == stack[Len(stack)]
Pop == SubSeq(stack, 1, Len(stack) - 1)
SetTop(f) == [stack EXCEPT ![Len(stack)] = f]

\* ---------------------------------------------------- the facade: getters
\* klass->list_tracks (mixer) of an element that implements it.
impl_list_tracks == 1

\* Mutant: the slot is used without the test of line 136.
list_tracks_unchecked(k) == impl_list_tracks

\* gst_mixer_list_tracks: the implementation's list, else NULL.
list_tracks_result(k) ==
  IF k["list_tracks"] THEN impl_list_tracks ELSE NULL

gst_mixer_list_tracks ==
  /\ Idle
  /\ ret' = [type |-> "GList", ptr |-> list_tracks_result(klass)]
  /\ trace' = Append(trace, Call("list_tracks", "none", "mixer", NULL, TRUE))
  /\ UNCHANGED <<classVars, obsVars, devVars, buf, stack, log, invs>>

\* klass->get_volume (mixer, track, volumes) of an element that implements
\* it: the stored volume of each channel of the track.
impl_get_volume(track, volumes) ==
  [i \in 1..Len(volumes) |->
     IF i <= num_channels[track] THEN volume[track][i] ELSE volumes[i]]

\* Mutant: the loop runs to i <= num_channels.
RECURSIVE ZeroLoopInclusive(_, _, _)
ZeroLoopInclusive(volumes, i, n) ==
  IF i <= n THEN ZeroLoopInclusive([volumes EXCEPT ![i + 1] = 0], i + 1, n)
  ELSE volumes

\* The loop of lines 189-191; C's volumes[i] is cell i + 1 here.
RECURSIVE ZeroLoop(_, _, _)
ZeroLoop(volumes, i, n) ==
  IF i < n THEN ZeroLoop([volumes EXCEPT ![i + 1] = 0], i + 1, n)
  ELSE volumes

\* Mutant: the array is zeroed whether or not the slot is set.
get_volume_always_default(k, track, volumes) ==
  ZeroLoop(volumes, 0, num_channels[track])

\* gst_mixer_get_volume: what it leaves in the caller's array.
get_volume_result(k, track, volumes) ==
  IF k["get_volume"] THEN impl_get_volume(track, volumes)
  ELSE ZeroLoop(volumes, 0, num_channels[track])

\* The array a caller allocates for a track, before anything is stored in it.
CallerArray(track) == [i \in 1..(num_channels[track] + Slack) |-> Uninit]

gst_mixer_get_volume(track) ==
  /\ Idle
  /\ buf' = get_volume_result(klass, track, CallerArray(track))
  /\ trace' = Append(trace, Call("get_volume", "none", track, NULL, TRUE))
  /\ UNCHANGED <<classVars, obsVars, devVars, ret, stack, log, invs>>

\* Mutant: without an implementation, the group's first value is returned.
get_option_first_value(k, opts) ==
  IF k["get_option"] THEN option[opts] ELSE 1

\* Mutant: the slot is never called; the default is returned.
get_option_always_default(k, opts) == NULL

\* gst_mixer_get_option: the implementation's current value, else NULL.
get_option_result(k, opts) ==
  IF k["get_option"] THEN option[opts] ELSE NULL

gst_mixer_get_option(opts) ==
  /\ Idle
  /\ ret' = [type |-> "gchar", ptr |-> get_option_result(klass, opts)]
  /\ trace' = Append(trace, Call("get_option", "none", opts, NULL, TRUE))
  /\ UNCHANGED <<classVars, obsVars, devVars, buf, stack, log, invs>>

\* ---------------------------------------------------- the facade: setters
Kinds == {"mute", "record", "volume", "option"}
EntitiesOf(kind) == IF kind = "option" THEN OptionGroups ELSE Tracks
ValuesOf(kind, ent) ==
  CASE kind = "volume" -> VolumeArrays(ent)
    [] kind = "option" -> ValueTokens
    [] OTHER -> BOOLEAN

\* Mutant: the setter returns without calling the slot.
SetDispatchSkipsImpl(k, slot, kind, ent, val) ==
  IF k[slot] THEN <<Frame("facade", "dispatched", kind, ent, val)>> ELSE <<>>

\* Mutant: set_mute is not passed on when the track already has the value.
SetDispatchDeduplicates(k, slot, kind, ent, val) ==
  IF k[slot] /\ ~(kind = "mute" /\ mute[ent] = val)
  THEN <<Frame("facade", "dispatched", kind, ent, val),
         Frame("impl", "mutate", kind, ent, val)>>
  ELSE <<>>

\* Mutant: the setter emits the mixer's signals itself before the slot runs.
SetDispatchEmitsItself(k, slot, kind, ent, val) ==
  IF k[slot]
  THEN <<Frame("facade", "dispatched", kind, ent, val),
         Frame("impl", "mutate", kind, ent, val),
         [Frame("gst_mixer_mute_toggled", "emit", kind, ent, val)
            EXCEPT !.step = 1, !.pos = 1]>>
  ELSE <<>>

\* Mutant: the slot is called without the test for NULL.
SetDispatchUnchecked(k, slot, kind, ent, val) ==
  <<Frame("facade", "dispatched", kind, ent, val),
    Frame("impl", "mutate", kind, ent, val)>>

\* The frames a setter of lines 158-256 puts on the stack: its own and the
\* implementation's when the slot is set, none when it is NULL.
SetDispatch(k, slot, kind, ent, val) ==
  IF k[slot]
  THEN <<Frame("facade", "dispatched", kind, ent, val),
         Frame("impl", "mutate", kind, ent, val)>>
  ELSE <<>>

\* A setter is called: it has returned at once when it dispatched nothing.
FacadeSet(slot, kind, ent, val) ==
  LET frames == SetDispatch(klass, slot, kind, ent, val) IN
  /\ Idle
  /\ stack' = frames
  /\ trace' = Append(trace, Call(slot, kind, ent, val, frames = <<>>))

\* The caller's array holds the wanted volumes; the setter does not write it.
gst_mixer_set_volume(track, volumes) ==
  /\ FacadeSet("set_volume", "volume", track, volumes)
  /\ buf' = volumes
  /\ UNCHANGED <<classVars, obsVars, devVars, ret, log, invs>>

gst_mixer_set_mute(track, m) ==
  /\ FacadeSet("set_mute", "mute", track, m)
  /\ UNCHANGED <<classVars, obsVars, devVars, buf, ret, log, invs>>

gst_mixer_set_record(track, r) ==
  /\ FacadeSet("set_record", "record", track, r)
  /\ UNCHANGED <<classVars, obsVars, devVars, buf, ret, log, invs>>

gst_mixer_set_option(opts, value) ==
  /\ FacadeSet("set_option", "option", opts, value)
  /\ UNCHANGED <<classVars, obsVars, devVars, buf, ret, log, invs>>

\* ------------------------------------------------- the device's own code
\* A change the hardware makes by itself: the element's code runs outside
\* any facade call, stores the new state and notifies.
DeviceExternal(kind, ent, val) ==
  /\ Idle
  /\ stack' = <<Frame("hw_event", "mutate", kind, ent, val)>>
  /\ trace' = Append(trace, Call("external", kind, ent, val, FALSE))
  /\ UNCHANGED <<classVars, obsVars, devVars, buf, ret, log, invs>>

\* The implementation of a setter stores the new state; it notifies next.
DeviceMutate ==
  /\ stack # <<>>
  /\ Top.fn \in {"impl", "hw_event"}
  /\ Top.pc = "mutate"
  /\ mute' = IF Top.kind = "mute" THEN [mute EXCEPT ![Top.ent] = Top.val] ELSE mute
  /\ record' = IF Top.kind = "record" THEN [record EXCEPT ![Top.ent] = Top.val] ELSE record
  /\ volume' = IF Top.kind = "volume" THEN [volume EXCEPT ![Top.ent] = Top.val] ELSE volume
  /\ option' = IF Top.kind = "option" THEN [option EXCEPT ![Top.ent] = Top.val] ELSE option
  /\ stack' = SetTop([Top EXCEPT !.pc = "notify"])
  /\ UNCHANGED <<classVars, obsVars, buf, ret, trace, log, invs>>

\* ------------------------------------------- the notification functions
ById(enum) == [on |-> "mixer", by |-> "id", sig |-> enum]
ByName(name) == [on |-> "entity", by |-> "name", sig |-> name]

\* Mutant: the track's signal is emitted before the mixer's.
mute_toggled_entity_first ==
  <<ByName("mute_toggled"), ById("SIGNAL_MUTE_TOGGLED")>>

\* The two emissions of each notification function, in statement order.
mute_toggled_emits == <<ById("SIGNAL_MUTE_TOGGLED"), ByName("mute_toggled")>>
record_toggled_emits == <<ById("SIGNAL_RECORD_TOGGLED"), ByName("record_toggled")>>
volume_changed_emits == <<ById("SIGNAL_VOLUME_CHANGED"), ByName("volume_changed")>>
option_changed_emits == <<ById("SIGNAL_OPTION_CHANGED"), ByName("value_changed")>>

NotifyFns ==
  {"gst_mixer_mute_toggled", "gst_mixer_record_toggled",
   "gst_mixer_volume_changed", "gst_mixer_option_changed"}

Emits(fn) ==
  CASE fn = "gst_mixer_mute_toggled" -> mute_toggled_emits
    [] fn = "gst_mixer_record_toggled" -> record_toggled_emits
    [] fn = "gst_mixer_volume_changed" -> volume_changed_emits
    [] fn = "gst_mixer_option_changed" -> option_changed_emits

\* The notification function whose emission is running a handler, as the
\* place of its call in invs: the innermost one on the stack, 0 when none.
Emitter(st) ==
  LET on == {i \in 1..Len(st) : st[i].fn \in NotifyFns}
  IN IF on = {} THEN 0
     ELSE st[CHOOSE i \in on : \A j \in on : j <= i].inv

\* The device's code is about to notify a change of this kind.
Notifying(kind) ==
  /\ stack # <<>>
  /\ Top.fn \in {"impl", "hw_event"}
  /\ Top.pc = "notify"
  /\ Top.kind = kind

\* The call of a notification function: a frame for it, at its first
\* emission, with the track or options group and the value it was given.
NotifyEnter(fn) ==
  /\ invs' = Append(invs, [fn |-> fn, kind |-> Top.kind, ent |-> Top.ent,
                            val |-> Top.val, call |-> Len(trace),
                            parent |-> Emitter(stack)])
  /\ stack' = Append(SetTop([Top EXCEPT !.pc = "notified"]),
                     [Frame(fn, "emit", Top.kind, Top.ent, Top.val)
                        EXCEPT !.inv = Len(invs) + 1, !.step = 1, !.pos = 1])
  /\ UNCHANGED <<classVars, obsVars, devVars, buf, ret, trace, log>>

gst_mixer_mute_toggled ==
  /\ Notifying("mute")
  /\ NotifyEnter("gst_mixer_mute_toggled")

gst_mixer_record_toggled ==
  /\ Notifying("record")
  /\ NotifyEnter("gst_mixer_record_toggled")

gst_mixer_volume_changed ==
  /\ Notifying("volume")
  /\ NotifyEnter("gst_mixer_volume_changed")

gst_mixer_option_changed ==
  /\ Notifying("option")
  /\ NotifyEnter("gst_mixer_option_changed")

\* ------------------------------------------------------ signal emission
\* The name of the signal with this id; id 0 names none.
SignalName(id) ==
  IF id \in 1..Len(signal_table) THEN signal_table[id] ELSE "none"

\* The emission a notification frame is at, and whom it reaches.
EmissionOf(f) == Emits(f.fn)[f.step]

\* Mutant: the by-name emission is made on the device's first track.
EmitInstanceFirstTrack(f) ==
  IF EmissionOf(f).on = "mixer" THEN "mixer"
  ELSE IF f.ent \in Tracks THEN "T1" ELSE f.ent

EmitInstance(f) == IF EmissionOf(f).on = "mixer" THEN "mixer" ELSE f.ent

\* The arguments after the signal: g_signal_emit on the mixer passes the
\* track or options group and the value, g_signal_emit_by_name the value.
EmitArgs(f) ==
  IF EmissionOf(f).on = "mixer" THEN <<f.ent, f.val>> ELSE <<f.val>>

EmitSignal(f) ==
  IF EmissionOf(f).by = "id"
  THEN SignalName(gst_mixer_signals[EmissionOf(f).sig])
  ELSE Canon(EmissionOf(f).sig)
HandlersOf(f) ==
  IF <<EmitInstance(f), EmitSignal(f)>> \in Connectable
  THEN handlers[<<EmitInstance(f), EmitSignal(f)>>]
  ELSE <<>>

\* Mutant: a handler that fails ends the emission, as under an accumulator.
EmissionStopsOnFailure(ok) == ok

\* The signals are registered with return type G_TYPE_NONE and no
\* accumulator: what a handler does never ends the emission.
EmissionContinues(ok) == TRUE

\* The notification functions return void: nothing reaches their caller.
NotifyReports(failed) == FALSE

Emitting == stack # <<>> /\ Top.pc = "emit" /\ Top.step <= Len(Emits(Top.fn))

Delivery(f, h, ok) ==
  [call |-> Len(trace), inv |-> f.inv, scope |-> EmissionOf(f).on,
   inst |-> EmitInstance(f), sig |-> EmitSignal(f), h |-> h,
   ent |-> f.ent, val |-> f.val, args |-> EmitArgs(f), ok |-> ok]

\* The emission runs the next handler connected to the signal.
RunHandler ==
  /\ Emitting
  /\ Top.pos <= Len(HandlersOf(Top))
  /\ LET h == HandlersOf(Top)[Top.pos]
         ok == h \notin faulty
     IN /\ log' = Append(log, Delivery(Top, h, ok))
        /\ stack' = SetTop([Top EXCEPT
                              !.pos = IF EmissionContinues(ok) THEN @ + 1
                                      ELSE Len(HandlersOf(Top)) + 1,
                              !.err = @ \/ ~ok])
  /\ UNCHANGED <<classVars, obsVars, devVars, buf, ret, trace, invs>>

\* The emission has run every handler: g_signal_emit returns.
EmitDone ==
  /\ Emitting
  /\ Top.pos > Len(HandlersOf(Top))
  /\ stack' = SetTop([Top EXCEPT !.step = @ + 1, !.pos = 1])
  /\ UNCHANGED <<classVars, obsVars, devVars, buf, ret, trace, log, invs>>

\* The trace once the outermost frame has returned.
Returned(popped) ==
  IF popped = <<>> THEN [trace EXCEPT ![Len(trace)].returned = TRUE] ELSE trace

\* The notification function returns to the device's code.
NotifyReturn ==
  /\ stack # <<>>
  /\ Top.pc = "emit"
  /\ Top.step > Len(Emits(Top.fn))
  /\ stack' = [Pop EXCEPT ![Len(Pop)].err = NotifyReports(Top.err)]
  /\ UNCHANGED <<classVars, obsVars, devVars, buf, ret, trace, log, invs>>

\* The device's code returns: to the facade, or to the main loop.
ImplReturn ==
  /\ stack # <<>>
  /\ Top.fn \in {"impl", "hw_event"}
  /\ Top.pc = "notified"
  /\ stack' = Pop
  /\ trace' = Returned(Pop)
  /\ UNCHANGED <<classVars, obsVars, devVars, buf, ret, log, invs>>

\* The setter returns to its caller.
FacadeReturn ==
  /\ stack # <<>>
  /\ Top.fn = "facade"
  /\ stack' = Pop
  /\ trace' = Returned(Pop)
  /\ UNCHANGED <<classVars, obsVars, devVars, buf, ret, log, invs>>

\* ---------------------------------------------------------- specification
Next ==
  \/ gst_mixer_list_tracks
  \/ \E t \in Tracks : gst_mixer_get_volume(t)
  \/ \E o \in OptionGroups : gst_mixer_get_option(o)
  \/ \E t \in Tracks : \E v \in VolumeArrays(t) : gst_mixer_set_volume(t, v)
  \/ \E t \in Tracks : \E m \in BOOLEAN : gst_mixer_set_mute(t, m)
  \/ \E t \in Tracks : \E r \in BOOLEAN : gst_mixer_set_record(t, r)
  \/ \E o \in OptionGroups : \E v \in ValueTokens : gst_mixer_set_option(o, v)
  \/ \E kind \in Kinds : \E e \in EntitiesOf(kind) :
       \E v \in ValuesOf(kind, e) : DeviceExternal(kind, e, v)
  \/ DeviceMutate
  \/ gst_mixer_mute_toggled
  \/ gst_mixer_record_toggled
  \/ gst_mixer_volume_changed
  \/ gst_mixer_option_changed
  \/ RunHandler
  \/ EmitDone
  \/ NotifyReturn
  \/ ImplReturn
  \/ FacadeReturn

Spec == Init /\ [][Next]_vars

\* ------------------------------------------------ observers come and go
\* The (instance, signal) pairs observers connect to while the program runs:
\* mute-toggled at the device scope and at the scope of one track.  Events
\* of the other track and of the options group reach the latter never.
ObsPairs ==
  {<<"mixer", "mute-toggled">>, <<"T1", "mute-toggled">>}

\* Handler ids are handed out in increasing order, one per connection.
NewHandlerId ==
  Cardinality({i \in 1..Len(conns) : conns[i].op = "connect"}) + 1

\* Mutant: a new handler is put in front of the ones already connected.
ConnectedListPrepends(hs, h) == <<h>> \o hs

\* A new handler runs after the ones already connected to the signal.
ConnectedList(hs, h) == Append(hs, h)

DisconnectedList(hs, i) == SubSeq(hs, 1, i - 1) \o SubSeq(hs, i + 1, Len(hs))

\* Mutant: a new handler is at once handed the last event of its signal.
ReplaysLastEvent(c, h) ==
  LET past == {k \in 1..Len(invs) :
                 \/ c = <<"mixer", SignalName(gst_mixer_signals[Emits(invs[k].fn)[1].sig])>>
                 \/ c = <<invs[k].ent, Canon(Emits(invs[k].fn)[2].sig)>>}
  IN IF past = {} THEN <<>>
     ELSE LET k == CHOOSE x \in past : \A y \in past : y <= x
          IN <<[call |-> Len(trace), inv |-> k,
                scope |-> IF c[1] = "mixer" THEN "mixer" ELSE "entity",
                inst |-> c[1], sig |-> c[2], h |-> h, ent |-> invs[k].ent,
                val |-> invs[k].val,
                args |-> IF c[1] = "mixer" THEN <<invs[k].ent, invs[k].val>>
                         ELSE <<invs[k].val>>,
                ok |-> TRUE]>>

\* The handler runs a connection causes by itself: none, an emission that
\* is over has left nothing behind for a handler connected later.
ReplayOnConnect(c, h) == <<>>

\* An observer connects a handler to a signal of the mixer or of an entity.
Register(c) ==
  /\ stack = <<>>
  /\ Len(conns) < MaxConns
  /\ Len(handlers[c]) < MaxHandlers
  /\ handlers' = [handlers EXCEPT ![c] = ConnectedList(@, NewHandlerId)]
  /\ conns' = Append(conns, [op |-> "connect", inst |-> c[1], sig |-> c[2],
                             h |-> NewHandlerId, at |-> Len(trace)])
  /\ log' = log \o ReplayOnConnect(c, NewHandlerId)
  /\ UNCHANGED <<classVars, faulty, devVars, buf, ret, stack, trace, invs>>

\* An observer disconnects the i-th handler of a signal.
Unregister(c, i) ==
  /\ stack = <<>>
  /\ Len(conns) < MaxConns
  /\ handlers' = [handlers EXCEPT ![c] = DisconnectedList(@, i)]
  /\ conns' = Append(conns, [op |-> "disconnect", inst |-> c[1], sig |-> c[2],
                             h |-> handlers[c][i], at |-> Len(trace)])
  /\ UNCHANGED <<classVars, faulty, devVars, buf, ret, stack, trace, log, invs>>

\* A device that implements every slot, with no handler connected yet.
InitObs ==
  /\ InitClass(Slots)
  /\ handlers = [c \in Connectable |-> <<>>]
  /\ faulty = {}
  /\ conns = <<>>
  /\ InitDevice

NextObs ==
  \/ \E c \in ObsPairs : Register(c)
  \/ \E c \in ObsPairs : \E i \in 1..Len(handlers[c]) : Unregister(c, i)
  \/ \E t \in Tracks : gst_mixer_set_mute(t, TRUE)
  \/ \E o \in OptionGroups : \E v \in ValueTokens : DeviceExternal("option", o, v)
  \/ DeviceMutate
  \/ gst_mixer_mute_toggled
  \/ gst_mixer_option_changed
  \/ RunHandler
  \/ EmitDone
  \/ NotifyReturn
  \/ ImplReturn
  \/ FacadeReturn

SpecObs == InitObs /\ [][NextObs]_vars

\* ------------------------------------------- handlers that call the mixer
\* The calls handlers have made so far: the notifications made under another
\* one's emission, and the handlers whose call has not reached its own yet.
NestedSoFar ==
  Cardinality({k \in 1..Len(invs) : invs[k].parent # 0})
    + Cardinality({i \in 1..Len(stack) :
                     /\ stack[i].fn = "handler"
                     /\ i < Len(stack)
                     /\ \A j \in (i + 1)..Len(stack) : stack[j].fn \notin NotifyFns})

\* Mutant: the call a handler makes is put off until the calls in progress
\* have returned.
HandlerCallQueued(st, frames) == frames \o st

\* A call is a C function call: the callee's frames go on top of the stack
\* and run to their return before the caller goes on.
HandlerCallStack(st, frames) == st \o frames

\* The handler the emission runs next makes a call of its own: its run is
\* logged, and its frame and the frames of the call go on the stack.  The
\* frame keeps the emission it was run by and the place of its run in log.
HandlerCalls(track, m, frames) ==
  /\ Emitting
  /\ Top.pos <= Len(HandlersOf(Top))
  /\ NestedSoFar < MaxNest
  /\ log' = Append(log, Delivery(Top, HandlersOf(Top)[Top.pos], TRUE))
  /\ stack' = HandlerCallStack(
                 Append(SetTop([Top EXCEPT !.pos = @ + 1]),
                        [Frame("handler", "called", "mute", track, m)
                           EXCEPT !.inv = Top.inv, !.pos = Len(log) + 1]),
                 frames)
  /\ UNCHANGED <<classVars, obsVars, devVars, buf, ret, trace, invs>>

\* A handler calls gst_mixer_set_mute on the mixer that is emitting.
HandlerCallsSetter(track, m) ==
  /\ HandlerCalls(track, m, SetDispatch(klass, "set_mute", "mute", track, m))

\* A handler that is part of the element calls gst_mixer_mute_toggled.
HandlerNotifies(track, m) ==
  /\ HandlerCalls(track, m, <<Frame("hw_event", "notify", "mute", track, m)>>)

\* The handler's call has returned, and the handler returns to the emission.
HandlerReturn ==
  /\ stack # <<>>
  /\ Top.fn = "handler"
  /\ stack' = Pop
  /\ UNCHANGED <<classVars, obsVars, devVars, buf, ret, trace, log, invs>>

\* A device that implements every slot, with the same handlers, none of
\* them failing, connected to every signal.
InitReentrant ==
  /\ InitClass(Slots)
  /\ \E n \in 1..MaxHandlers :
       handlers = [c \in Connectable |-> [i \in 1..n |-> i]]
  /\ faulty = {}
  /\ conns = <<>>
  /\ InitDevice

\* One top-level call, whose handlers may call back into the mixer.
NextReentrant ==
  \/ \E t \in Tracks : \E m \in BOOLEAN : trace = <<>> /\ gst_mixer_set_mute(t, m)
  \/ \E t \in Tracks : \E m \in BOOLEAN : trace = <<>> /\ DeviceExternal("mute", t, m)
  \/ \E t \in Tracks : \E m \in BOOLEAN : HandlerCallsSetter(t, m)
  \/ \E t \in Tracks : HandlerNotifies(t, TRUE)
  \/ HandlerReturn
  \/ DeviceMutate
  \/ gst_mixer_mute_toggled
  \/ RunHandler
  \/ EmitDone
  \/ NotifyReturn
  \/ ImplReturn
  \/ FacadeReturn

SpecReentrant == InitReentrant /\ [][NextReentrant]_vars

\* ------------------------------------------- registration of the interface
\* The values of klass->mixer_type; zeroed memory reads as the first.
MixerTypes == {"GST_MIXER_HARDWARE", "GST_MIXER_SOFTWARE"}

\* g_type_register_static: the id of the new type, 0 when the name is taken.
g_type_register_static(types, name) ==
  IF \E i \in 1..Len(types) : types[i] = name
  THEN [types |-> types, id |-> 0]
  ELSE [types |-> Append(types, name), id |-> Len(types) + 1]

\* g_signal_new: the id of the new signal, 0 when the type has the name.
g_signal_new(table, name) ==
  IF \E i \in 1..Len(table) : table[i] = name
  THEN [table |-> table, id |-> 0]
  ELSE [table |-> Append(table, name), id |-> Len(table) + 1]

\* The four g_signal_new calls of lines 75-102, in statement order, each
\* result stored at the index on the left of its assignment.
RegisterSignals(table) ==
  LET r1 == g_signal_new(table, "record-toggled")
      r2 == g_signal_new(r1.table, "mute-toggled")
      r3 == g_signal_new(r2.table, "volume-changed")
      r4 == g_signal_new(r3.table, "option-changed")
  IN [table |-> r4.table,
      signals |-> [e \in SignalEnum |->
                     CASE e = "SIGNAL_RECORD_TOGGLED" -> r1.id
                       [] e = "SIGNAL_MUTE_TOGGLED" -> r2.id
                       [] e = "SIGNAL_VOLUME_CHANGED" -> r3.id
                       [] e = "SIGNAL_OPTION_CHANGED" -> r4.id]]

\* Mutant: the signals are registered on every run.
FirstRunAlways(init) == TRUE

\* if (!initialized), line 74.
FirstRun(init) == ~init

\* The type system may make another call.
CanInit == stack = <<>> /\ Len(trace) < MaxInits

\* gst_mixer_get_type: registers the interface on its first call.
gst_mixer_get_type ==
  LET r == g_type_register_static(g_types, "GstMixer")
      type == IF gst_mixer_type = 0 THEN r.id ELSE gst_mixer_type
  IN /\ CanInit
     /\ gst_mixer_type' = type
     /\ g_types' = IF gst_mixer_type = 0 THEN r.types ELSE g_types
     /\ ret' = [type |-> "GType", ptr |-> type]
     /\ trace' = Append(trace, Call("get_type", "none", "mixer", type, TRUE))
     /\ UNCHANGED <<klass, mixer_type, initialized, gst_mixer_signals,
                    signal_table, obsVars, devVars, buf, stack, log, invs>>

\* gst_mixer_class_init, the base initialiser of the registered interface:
\* the type system runs it on the interface structure of each class that
\* implements GstMixer, whatever that structure holds.
gst_mixer_class_init ==
  LET r == RegisterSignals(signal_table) IN
  /\ CanInit
  /\ gst_mixer_type # 0
  /\ signal_table' = IF FirstRun(initialized) THEN r.table ELSE signal_table
  /\ gst_mixer_signals' =
       IF FirstRun(initialized) THEN r.signals ELSE gst_mixer_signals
  /\ initialized' = (FirstRun(initialized) \/ initialized)
  /\ mixer_type' = "GST_MIXER_SOFTWARE"
  /\ klass' = [s \in Slots |-> FALSE]
  /\ trace' = Append(trace, Call("class_init", "none", "klass",
                                 [slots |-> klass, mixer_type |-> mixer_type],
                                 TRUE))
  /\ UNCHANGED <<gst_mixer_type, g_types, obsVars, devVars, buf, ret, stack,
                 log, invs>>

\* The interface initialiser of an element, run after the base initialiser:
\* it installs the slots of its class and may set the mixer type.
InterfaceInit(c, mt) ==
  /\ CanInit
  /\ trace # <<>>
  /\ trace[Len(trace)].op = "class_init"
  /\ klass' = [s \in Slots |-> s \in c]
  /\ mixer_type' = mt
  /\ trace' = Append(trace, Call("interface_init", "none", "klass",
                                 [slots |-> klass', mixer_type |-> mt], TRUE))
  /\ UNCHANGED <<gst_mixer_type, initialized, g_types, gst_mixer_signals,
                 signal_table, obsVars, devVars, buf, ret, stack, log, invs>>

\* The program as it is loaded: the statics are zero, nothing is registered.
InitUnregistered ==
  /\ klass = [s \in Slots |-> FALSE]
  /\ mixer_type = "GST_MIXER_HARDWARE"
  /\ gst_mixer_type = 0
  /\ initialized = FALSE
  /\ g_types = <<>>
  /\ gst_mixer_signals = [e \in SignalEnum |-> 0]
  /\ signal_table = <<>>
  /\ handlers = [c \in Connectable |-> <<>>]
  /\ faulty = {}
  /\ conns = <<>>
  /\ InitDevice

NextInit ==
  \/ gst_mixer_get_type
  \/ gst_mixer_class_init
  \/ \E c \in DeviceClasses : \E mt \in MixerTypes : InterfaceInit(c, mt)

SpecInit == InitUnregistered /\ [][NextInit]_vars

\* ------------------------------------------------------------ the claims
LastCall == trace[Len(trace)]

\* The last top-level call was this operation, and it has returned.
JustReturned(op) ==
  /\ trace # <<>>
  /\ stack = <<>>
  /\ LastCall.op = op
  /\ LastCall.returned

\* The handler runs made during the j-th top-level call.
RunsOfCall(j) == SelectSeq(log, LAMBDA e : e.call = j)

\* C1: on a device with no get_volume implementation, get_volume on a track
\* of n channels leaves 0 in cells 0..n-1 of the caller's array, leaves the
\* cells from n on as they were, leaves the array's length as it was, and
\* runs no handler.
C1_GetVolumeDefaultZeroFills ==
  (JustReturned("get_volume") /\ ~klass["get_volume"]) =>
    LET n == num_channels[LastCall.ent]
        before == CallerArray(LastCall.ent)
    IN /\ Len(buf) = Len(before)
       /\ \A i \in 1..n : buf[i] = 0
       /\ \A i \in (n + 1)..Len(buf) : buf[i] = before[i]
       /\ RunsOfCall(Len(trace)) = <<>>

C1_Witness ==
  /\ JustReturned("get_volume")
  /\ ~klass["get_volume"]
  /\ LastCall.ent = "T2"
  /\ SubSeq(buf, 1, 2) = <<0, 0>>
  /\ buf[3] = Uninit
  /\ Len(handlers[<<"mixer", "volume-changed">>]) = MaxHandlers

\* C2 as stated: on a device with no list_tracks implementation, list_tracks
\* returns an empty sequence and the result is not null.
C2_ListTracksDefaultNotNull ==
  (JustReturned("list_tracks") /\ ~klass["list_tracks"]) =>
    /\ GListToSeq(ret.ptr) = <<>>
    /\ ret.ptr # NULL

\* C2 amended: on a device with no list_tracks implementation, list_tracks
\* returns NULL, and NULL is the GList of no elements.
C2_ListTracksDefaultIsNullList ==
  (JustReturned("list_tracks") /\ ~klass["list_tracks"]) =>
    /\ ret.type = "GList"
    /\ ret.ptr = NULL
    /\ GListToSeq(ret.ptr) = <<>>

C2_Witness ==
  /\ JustReturned("list_tracks")
  /\ ~klass["list_tracks"]
  /\ klass["get_option"]
  /\ ret = [type |-> "GList", ptr |-> NULL]

\* C3: on a device with no get_option implementation, get_option returns
\* NULL for every options group, and NULL is none of the value tokens a
\* device can return.
C3_GetOptionDefaultIsNoValue ==
  (JustReturned("get_option") /\ ~klass["get_option"]) =>
    /\ ret.type = "gchar"
    /\ ret.ptr = NULL
    /\ \A v \in ValueTokens : ret.ptr # v

C3_Witness ==
  /\ JustReturned("get_option")
  /\ ~klass["get_option"]
  /\ klass["set_option"]
  /\ ret = [type |-> "gchar", ptr |-> NULL]

SetSlots == {"set_volume", "set_mute", "set_record", "set_option"}

\* This step is a call of a setter whose slot is NULL.
UnimplementedSetterCall ==
  /\ Len(trace') = Len(trace) + 1
  /\ trace'[Len(trace')].op \in SetSlots
  /\ ~klass[trace'[Len(trace')].op]

\* C4: on a device that does not implement it, a call of set_volume,
\* set_mute, set_record or set_option changes nothing: the device state, the
\* class, the observers and the caller's array stay as they are, no handler
\* runs and no notification function is called, and the call has returned.
C4_UnimplementedSetterIsNoop ==
  [][UnimplementedSetterCall =>
       /\ UNCHANGED <<devVars, classVars, obsVars, ret, log, invs>>
       /\ stack' = <<>>
       /\ trace'[Len(trace')].returned
       /\ SubSeq(trace', 1, Len(trace)) = trace
       /\ (trace'[Len(trace')].op = "set_volume"
             => buf' = trace'[Len(trace')].val)
       /\ (trace'[Len(trace')].op # "set_volume" => buf' = buf)]_vars

C4_Witness ==
  /\ JustReturned("set_mute")
  /\ ~klass["set_mute"]
  /\ klass["set_volume"]
  /\ Len(trace) = 2
  /\ trace[1].op = "set_volume"
  /\ LastCall.ent = "T1"
  /\ LastCall.val = TRUE
  /\ ~mute["T1"]
  /\ Len(handlers[<<"mixer", "mute-toggled">>]) = MaxHandlers
  /\ RunsOfCall(2) = <<>>
  /\ RunsOfCall(1) # <<>>

\* The signal an observer of one kind of event is connected to: on the mixer
\* for the device scope, on the track or options group for the entity scope.
DeviceSignal(kind) ==
  CASE kind = "mute" -> "mute-toggled"
    [] kind = "record" -> "record-toggled"
    [] kind = "volume" -> "volume-changed"
    [] kind = "option" -> "option-changed"
EntitySignal(kind) ==
  CASE kind = "mute" -> "mute-toggled"
    [] kind = "record" -> "record-toggled"
    [] kind = "volume" -> "volume-changed"
    [] kind = "option" -> "value-changed"

\* The event kind each notification function is for.
KindOfFn(fn) ==
  CASE fn = "gst_mixer_mute_toggled" -> "mute"
    [] fn = "gst_mixer_record_toggled" -> "record"
    [] fn = "gst_mixer_volume_changed" -> "volume"
    [] fn = "gst_mixer_option_changed" -> "option"

\* The observers of one kind of event on one entity, in delivery order: the
\* device-scoped ones, then the entity-scoped ones, each in connection order.
Observers(kind, ent) ==
  LET D == handlers[<<"mixer", DeviceSignal(kind)>>]
      E == handlers[<<ent, EntitySignal(kind)>>]
  IN [i \in 1..Len(D) |->
        [scope |-> "mixer", inst |-> "mixer", sig |-> DeviceSignal(kind), h |-> D[i]]]
     \o [i \in 1..Len(E) |->
        [scope |-> "entity", inst |-> ent, sig |-> EntitySignal(kind), h |-> E[i]]]

\* Whose handlers a sequence of handler runs ran.
Who(runs) ==
  [i \in 1..Len(runs) |->
     [scope |-> runs[i].scope, inst |-> runs[i].inst, sig |-> runs[i].sig,
      h |-> runs[i].h]]

\* The handler runs of the k-th call of a notification function, and whether
\* that call has returned.
RunsOfInv(k) == SelectSeq(log, LAMBDA e : e.inv = k)
InvDone(k) == \A i \in 1..Len(stack) : stack[i].inv # k

ImplementedSetter(j) == trace[j].op \in SetSlots /\ klass[trace[j].op]

\* The calls of notification functions made during the j-th top-level call.
InvsOfCall(j) == {k \in 1..Len(invs) : invs[k].call = j}

SetMuteCalls(t) ==
  SelectSeq([j \in 1..Len(trace) |-> j],
            LAMBDA j : /\ trace[j].op = "set_mute"
                       /\ trace[j].ent = t
                       /\ trace[j].returned)
ValuesOfCalls(js) == [i \in 1..Len(js) |-> trace[js[i]].val]

\* The values an observer was handed by the set_mute calls on a track.
MuteValuesSeen(ob, t) ==
  LET runs == SelectSeq(log, LAMBDA e : /\ e.scope = ob.scope
                                        /\ e.inst = ob.inst
                                        /\ e.sig = ob.sig
                                        /\ e.h = ob.h
                                        /\ e.ent = t
                                        /\ trace[e.call].op = "set_mute")
  IN [i \in 1..Len(runs) |-> runs[i].val]

\* C7: on a device that implements set_mute, after any sequence of set_mute
\* calls on a track every observer of mute-toggled, device-scoped or scoped
\* to the track, has been handed one event per call, in call order, with the
\* value of each call: equal consecutive values are not merged.
C7_OneMuteEventPerCall ==
  (stack = <<>> /\ klass["set_mute"]) =>
    \A t \in Tracks :
      \A o \in 1..Len(Observers("mute", t)) :
        MuteValuesSeen(Observers("mute", t)[o], t) = ValuesOfCalls(SetMuteCalls(t))

C7_Witness ==
  /\ stack = <<>>
  /\ klass["set_mute"]
  /\ Len(trace) = 2
  /\ SetMuteCalls("T1") = <<1, 2>>
  /\ ValuesOfCalls(SetMuteCalls("T1")) = <<TRUE, TRUE>>
  /\ Len(Observers("mute", "T1")) = 2 * MaxHandlers
  /\ MuteValuesSeen(Observers("mute", "T1")[1], "T1") = <<TRUE, TRUE>>
  /\ Len(log) = 4 * MaxHandlers

\* The device's state for one kind of event on one entity.
StateOf(kind, ent) ==
  CASE kind = "mute" -> mute[ent]
    [] kind = "record" -> record[ent]
    [] kind = "volume" -> volume[ent]
    [] kind = "option" -> option[ent]

\* The j-th top-level call changed the device's state: a setter the device
\* implements, or a change the hardware made.
ChangesState(j) == ImplementedSetter(j) \/ trace[j].op = "external"

CallCanProceed ==
  ENABLED (\/ DeviceMutate
           \/ gst_mixer_mute_toggled
           \/ gst_mixer_record_toggled
           \/ gst_mixer_volume_changed
           \/ gst_mixer_option_changed
           \/ RunHandler
           \/ EmitDone
           \/ NotifyReturn
           \/ ImplReturn
           \/ FacadeReturn)

C10_SetGetVolumeRoundTrip ==
  \A j \in 1..Len(trace) :
    ( /\ j + 1 = Len(trace)
      /\ stack = <<>>
      /\ trace[j].op = "set_volume"
      /\ trace[j + 1].op = "get_volume"
      /\ trace[j].ent = trace[j + 1].ent
      /\ klass["set_volume"]
      /\ klass["get_volume"] ) =>
        /\ SubSeq(buf, 1, num_channels[trace[j].ent]) = trace[j].val
        /\ Len(buf) = Len(CallerArray(trace[j].ent))
        /\ Who(RunsOfCall(j)) = Observers("volume", trace[j].ent)
        /\ \A i \in 1..Len(RunsOfCall(j)) :
             /\ RunsOfCall(j)[i].val = trace[j].val
             /\ RunsOfCall(j)[i].ent = trace[j].ent
        /\ RunsOfCall(j + 1) = <<>>

C10_Witness ==
  /\ JustReturned("get_volume")
  /\ Len(trace) = 2
  /\ trace[1].op = "set_volume"
  /\ trace[1].ent = "T2"
  /\ trace[1].val = <<80, 50>>
  /\ LastCall.ent = "T2"
  /\ klass["set_volume"]
  /\ klass["get_volume"]
  /\ SubSeq(buf, 1, 2) = <<80, 50>>
  /\ Len(RunsOfCall(1)) = 2 * MaxHandlers

\* What the device's list_tracks returns: its two tracks, in its order.
ImplTrackList == <<"T1", "T2">>

\* C12: each of the seven operations passes through to the device when the
\* slot is set and applies its default only when it is not.  With the slot
\* set, list_tracks and get_option return the implementation's result as it
\* is, get_volume leaves the implementation's values in the array and zeroes
\* no cell, and a setter has run the implementation once with the caller's
\* track or options group and value: the state holds that value and the one
\* notification carries them.  With the slot NULL the result is NULL, the
\* zero fill, or nothing at all.
C12_PassThroughDispatch ==
  /\ JustReturned("list_tracks") =>
       /\ klass["list_tracks"] => /\ ret.ptr = impl_list_tracks
                                  /\ GListToSeq(ret.ptr) = ImplTrackList
       /\ ~klass["list_tracks"] => ret.ptr = NULL
  /\ JustReturned("get_option") =>
       /\ klass["get_option"] => /\ ret.ptr = option[LastCall.ent]
                                 /\ ret.ptr \in ValueTokens
       /\ ~klass["get_option"] => ret.ptr = NULL
  /\ JustReturned("get_volume") =>
       LET t == LastCall.ent
           n == num_channels[t]
       IN /\ klass["get_volume"] =>
               /\ SubSeq(buf, 1, n) = volume[t]
               /\ \A i \in 1..Len(buf) : buf[i] # 0
          /\ ~klass["get_volume"] => \A i \in 1..n : buf[i] = 0
          /\ \A i \in (n + 1)..Len(buf) : buf[i] = Uninit
  /\ \A j \in 1..Len(trace) :
       (trace[j].op \in SetSlots /\ trace[j].returned) =>
         /\ klass[trace[j].op] =>
              /\ Cardinality(InvsOfCall(j)) = 1
              /\ \A k \in InvsOfCall(j) :
                   /\ KindOfFn(invs[k].fn) = trace[j].kind
                   /\ invs[k].ent = trace[j].ent
                   /\ invs[k].val = trace[j].val
              /\ (j = Len(trace) =>
                    StateOf(trace[j].kind, trace[j].ent) = trace[j].val)
         /\ ~klass[trace[j].op] => InvsOfCall(j) = {}

C12_Witness ==
  /\ JustReturned("get_option")
  /\ klass = [s \in Slots |-> TRUE]
  /\ Len(trace) = 2
  /\ trace[1].op = "set_option"
  /\ trace[1].val = 2
  /\ trace[1].returned
  /\ ret = [type |-> "gchar", ptr |-> 2]
  /\ Strings[ret.ptr] = "microphone"
  /\ Cardinality(InvsOfCall(1)) = 1

\* C13: a handler is only run for the instance and signal it is connected
\* to.  A handler connected to a track's or options group's signal runs only
\* for a notification that names that track or group, and a handler of one
\* kind of event only for a notification of that kind; the handlers on the
\* mixer are handed the entity and the value given to the notification
\* function, the handlers on the entity that same value.
C13_ScopedDeliveryCarriesPayload ==
  \A i \in 1..Len(log) :
    LET e == log[i]
        n == invs[e.inv]
    IN /\ e.h \in {handlers[<<e.inst, e.sig>>][x] :
                     x \in 1..Len(handlers[<<e.inst, e.sig>>])}
       /\ e.scope = "mixer" =>
            /\ e.inst = "mixer"
            /\ e.sig = DeviceSignal(n.kind)
            /\ e.args = <<n.ent, n.val>>
       /\ e.scope = "entity" =>
            /\ e.inst = n.ent
            /\ e.sig = EntitySignal(n.kind)
            /\ e.args = <<n.val>>

C13_Witness ==
  /\ stack = <<>>
  /\ Len(trace) = 1
  /\ trace[1].op = "set_volume"
  /\ trace[1].ent = "T2"
  /\ trace[1].val = <<80, 50>>
  /\ Len(handlers[<<"T1", "volume-changed">>]) = MaxHandlers
  /\ Len(handlers[<<"mixer", "mute-toggled">>]) = MaxHandlers
  /\ Len(log) = 2 * MaxHandlers
  /\ log[1].args = <<"T2", <<80, 50>>>>
  /\ log[Len(log)].args = << <<80, 50>> >>
  /\ \A i \in 1..Len(log) : log[i].inst # "T1" /\ log[i].sig = "volume-changed"

\* This step is a call of one of the seven functions of the facade.
FacadeCall ==
  /\ Len(trace') = Len(trace) + 1
  /\ trace'[Len(trace')].op \in Slots

\* The frame below the innermost one is the device's code, which has called
\* a notification function.
CalledByDevice ==
  /\ Len(stack) >= 2
  /\ stack[Len(stack) - 1].fn \in {"impl", "hw_event"}
  /\ stack[Len(stack) - 1].pc = "notified"

\* C15: the mute, record, volume and option value of every track and options
\* group change only in a step of the device's own code.  A call of one of
\* the seven functions changes none of them, runs no handler and calls no
\* notification function; what it writes itself is the zero fill of the
\* caller's array in get_volume on a device without get_volume.  A step of a
\* notification function changes no device state, array or result, and a
\* handler is only ever run by an emission of a notification function that
\* the device's code has called.
C15_OnlyDeviceCodeMutates ==
  [][/\ (devVars' # devVars) =>
          /\ stack # <<>>
          /\ Top.fn \in {"impl", "hw_event"}
          /\ Top.pc = "mutate"
     /\ FacadeCall =>
          LET c == trace'[Len(trace')] IN
          /\ UNCHANGED <<devVars, classVars, obsVars, log, invs>>
          /\ (c.op \notin {"get_volume", "set_volume"}) => buf' = buf
          /\ (c.op = "set_volume") => buf' = c.val
          /\ (c.op = "get_volume" /\ ~klass["get_volume"]) =>
               buf' = [i \in 1..Len(CallerArray(c.ent)) |->
                         IF i <= num_channels[c.ent] THEN 0 ELSE Uninit]
          /\ (c.op \notin {"list_tracks", "get_option"}) => ret' = ret
     /\ (stack # <<>> /\ Top.fn \in NotifyFns \cup {"facade"}) =>
          UNCHANGED <<devVars, classVars, obsVars, buf, ret>>
     /\ (log' # log) =>
          /\ stack # <<>>
          /\ Top.fn \in NotifyFns
          /\ CalledByDevice
     /\ (invs' # invs) =>
          /\ stack # <<>>
          /\ Top.fn \in {"impl", "hw_event"}]_vars

C15_Witness ==
  /\ JustReturned("set_record")
  /\ Len(trace) = 2
  /\ trace[1].op = "get_volume"
  /\ trace[1].ent = "T1"
  /\ ~klass["get_volume"]
  /\ klass["set_record"]
  /\ buf = <<0, Uninit>>
  /\ LastCall.ent = "T2"
  /\ record = [t \in Tracks |-> t = "T2"]
  /\ Len(RunsOfCall(2)) = 2 * MaxHandlers

\* The handlers connected to a signal of an instance when the j-th top-level
\* call was made, in the order of their connection, as the history of
\* connections tells it.
Disconnected(h, j) ==
  \E d \in 1..Len(conns) :
    conns[d].op = "disconnect" /\ conns[d].h = h /\ conns[d].at < j
LiveAt(c, j) ==
  LET cs == SelectSeq(conns, LAMBDA x : /\ x.op = "connect"
                                        /\ x.inst = c[1]
                                        /\ x.sig = c[2]
                                        /\ x.at < j
                                        /\ ~Disconnected(x.h, j))
  IN [i \in 1..Len(cs) |-> cs[i].h]

\* The two signals a notification is emitted as.
PairsOfInv(k) ==
  {<<"mixer", DeviceSignal(invs[k].kind)>>,
   <<invs[k].ent, EntitySignal(invs[k].kind)>>}

\* The notifications a connection was live for: those of its signal made by
\* a call later than the connection and not later than its disconnection.
LiveFor(a) ==
  {k \in 1..Len(invs) :
     /\ <<conns[a].inst, conns[a].sig>> \in PairsOfInv(k)
     /\ conns[a].at < invs[k].call
     /\ ~Disconnected(conns[a].h, invs[k].call)}

\* C11: no event is kept for later.  A handler is only run for a
\* notification made while it was connected: never for one made before its
\* connection or after its disconnection.  Once the calls have returned, a
\* handler has run once for each notification of its signal made while it
\* was connected and not at all for the others, and a notification made
\* while no handler was connected to its two signals ran none.
C11_NoReplayToLateSubscribers ==
  /\ \A i \in 1..Len(log) :
       \E a \in 1..Len(conns) :
         /\ conns[a].op = "connect"
         /\ conns[a].h = log[i].h
         /\ <<conns[a].inst, conns[a].sig>> = <<log[i].inst, log[i].sig>>
         /\ log[i].inv \in LiveFor(a)
  /\ stack = <<>> =>
       \A a \in 1..Len(conns) :
         conns[a].op = "connect" =>
           \A k \in 1..Len(invs) :
             Cardinality({i \in 1..Len(log) :
                            log[i].h = conns[a].h /\ log[i].inv = k})
               = IF k \in LiveFor(a) THEN 1 ELSE 0
  /\ \A k \in 1..Len(invs) :
       (\A c \in PairsOfInv(k) : LiveAt(c, invs[k].call) = <<>>) =>
         RunsOfInv(k) = <<>>

C11_Witness ==
  /\ stack = <<>>
  /\ Len(trace) = 2
  /\ Len(conns) = 2
  /\ conns[1] = [op |-> "connect", inst |-> "mixer", sig |-> "mute-toggled",
                 h |-> 1, at |-> 1]
  /\ conns[2] = [op |-> "connect", inst |-> "T1", sig |-> "mute-toggled",
                 h |-> 2, at |-> 1]
  /\ trace[1].op = "set_mute"
  /\ trace[1].ent = "T1"
  /\ trace[2].op = "set_mute"
  /\ trace[2].ent = "T1"
  /\ RunsOfCall(1) = <<>>
  /\ Len(RunsOfCall(2)) = 2
  /\ mute["T1"]

\* The handlers run at one scope by the k-th notification, in run order.
RanAt(k, scope) ==
  LET runs == SelectSeq(log, LAMBDA e : e.inv = k /\ e.scope = scope)
  IN [i \in 1..Len(runs) |-> runs[i].h]

\* C14: at each scope, a notification runs the handlers connected to its
\* signal when it is made, each once, in the order in which they were
\* connected; a handler disconnected before the notification is not run.
C14_RegistrationOrder ==
  \A k \in 1..Len(invs) :
    InvDone(k) =>
      /\ RanAt(k, "mixer") =
           LiveAt(<<"mixer", DeviceSignal(invs[k].kind)>>, invs[k].call)
      /\ RanAt(k, "entity") =
           LiveAt(<<invs[k].ent, EntitySignal(invs[k].kind)>>, invs[k].call)

C14_Witness ==
  /\ stack = <<>>
  /\ Len(trace) = 2
  /\ Len(conns) = 3
  /\ conns[1].op = "connect"
  /\ conns[2].op = "connect"
  /\ conns[3] = [op |-> "disconnect", inst |-> "T1",
                 sig |-> "mute-toggled", h |-> 1, at |-> 1]
  /\ conns[2].at = 0
  /\ RanAt(1, "entity") = <<1, 2>>
  /\ RanAt(2, "entity") = <<2>>
  /\ handlers[<<"T1", "mute-toggled">>] = <<2>>

\* The places in log of the handler runs of the k-th notification.
IdxOf(k) == {i \in 1..Len(log) : log[i].inv = k}

\* This step is the return of a handler that made a call.
HandlerReturns == stack # <<>> /\ Top.fn = "handler" /\ stack' = Pop

\* The call the returning handler made has notified, and that notification
\* has run every handler of the mixer and then of the entity, all of them
\* after the handler's own run began, while the emission that ran the
\* handler has run no handler since.
NestedComplete ==
  /\ \E k \in 1..Len(invs) :
       /\ invs[k].parent = Top.inv
       /\ <<invs[k].kind, invs[k].ent, invs[k].val>> = <<Top.kind, Top.ent, Top.val>>
       /\ InvDone(k)
       /\ Who(RunsOfInv(k)) = Observers(invs[k].kind, invs[k].ent)
       /\ \A i \in IdxOf(k) : i > Top.pos
  /\ \A i \in IdxOf(Top.inv) : i <= Top.pos

\* The handler run that made the call of the k-th notification: the last run
\* of the parent's emission before the first run of the k-th.
NestingRun(k) ==
  CHOOSE c \in IdxOf(invs[k].parent) :
    /\ \A i \in IdxOf(k) : c < i
    /\ \A d \in IdxOf(invs[k].parent) : (\A i \in IdxOf(k) : d < i) => d <= c

\* Once the emission under which a notification was made runs a handler
\* again, that notification is over: its runs are all there and all earlier.
\* When it was made from a handler of the mixer and names the same entity
\* and kind, each handler of the entity has run for it before it runs for
\* the outer one.
NothingQueued ==
  \A k \in 1..Len(invs) :
    (invs[k].parent # 0) =>
      LET p == invs[k].parent IN
      /\ \A j \in IdxOf(p) :
           (\E i \in IdxOf(k) : i < j) =>
             /\ \A i \in IdxOf(k) : i < j
             /\ Cardinality(IdxOf(k)) = Len(Observers(invs[k].kind, invs[k].ent))
      /\ ( /\ IdxOf(k) # {}
           /\ log[NestingRun(k)].scope = "mixer"
           /\ <<invs[k].kind, invs[k].ent>> = <<invs[p].kind, invs[p].ent>> ) =>
           \A a \in IdxOf(p) :
             log[a].scope = "entity" =>
               \E b \in IdxOf(k) :
                 /\ b < a
                 /\ <<log[b].inst, log[b].sig, log[b].h>>
                      = <<log[a].inst, log[a].sig, log[a].h>>

\* C16: when a handler, run by the emission of a notification, calls
\* gst_mixer_set_mute or gst_mixer_mute_toggled on the same mixer, the
\* notification of that call has run every handler of the mixer and then of
\* the track before the handler returns and the outer emission runs its next
\* handler; nothing is put off, so the handlers of the track see the inner
\* event before the outer one.
C16_NestedDeliveredBeforeOuterResumes ==
  [][(HandlerReturns => NestedComplete) /\ NothingQueued']_vars

C16_Witness ==
  /\ stack = <<>>
  /\ Len(trace) = 1
  /\ trace[1].op = "set_mute"
  /\ trace[1].ent = "T1"
  /\ trace[1].val = TRUE
  /\ Len(invs) = 2
  /\ invs[2].parent = 1
  /\ invs[2].ent = "T1"
  /\ invs[2].val = FALSE
  /\ ~mute["T1"]
  /\ Len(log) = 4 * MaxHandlers
  /\ log[1].inv = 1
  /\ IdxOf(2) = 2..(2 * MaxHandlers + 1)
  /\ log[Len(log)].scope = "entity"
  /\ log[Len(log)].val = TRUE

\* The places in the trace of the runs of one initialisation function.
RunsOf(op) == {j \in 1..Len(trace) : trace[j].op = op}

\* Every operation on a device of this class takes its default.
AllDefaults(k) ==
  /\ list_tracks_result(k) = NULL
  /\ \A o \in OptionGroups : get_option_result(k, o) = NULL
  /\ \A t \in Tracks :
       get_volume_result(k, t, CallerArray(t)) =
         [i \in 1..Len(CallerArray(t)) |->
            IF i <= num_channels[t] THEN 0 ELSE Uninit]
  /\ \A kind \in Kinds : \A e \in EntitiesOf(kind) : \A v \in ValuesOf(kind, e) :
       SetDispatch(k, CHOOSE sl \in SetSlots :
                        sl = CASE kind = "volume" -> "set_volume"
                               [] kind = "mute" -> "set_mute"
                               [] kind = "record" -> "set_record"
                               [] kind = "option" -> "set_option",
                   kind, e, v) = <<>>

\* C17: over any runs of gst_mixer_get_type, of gst_mixer_class_init and of
\* elements' interface initialisers, the type GstMixer is registered once
\* and every call of gst_mixer_get_type returns its one id; the four signals
\* are registered once, by the first run of gst_mixer_class_init, and their
\* ids in gst_mixer_signals are from then on the four distinct ids of that
\* run; and when a run of gst_mixer_class_init ends, the class it ran on has
\* every slot NULL and mixer type SOFTWARE, whatever it held before, so that
\* each operation takes its default.
C17_InitialisationIsIdempotent ==
  /\ Len(g_types) <= 1
  /\ gst_mixer_type = (IF RunsOf("get_type") = {} THEN 0 ELSE 1)
  /\ \A j \in RunsOf("get_type") : trace[j].val = gst_mixer_type
  /\ gst_mixer_type # 0 => g_types = <<"GstMixer">>
  /\ initialized = (RunsOf("class_init") # {})
  /\ initialized =>
       /\ signal_table = ClassInitTable
       /\ gst_mixer_signals = ClassInitSignals
       /\ \A a \in SignalEnum : \A b \in SignalEnum :
            (a # b) => gst_mixer_signals[a] # gst_mixer_signals[b]
       /\ \A a \in SignalEnum : gst_mixer_signals[a] \in 1..Len(signal_table)
  /\ ~initialized =>
       /\ signal_table = <<>>
       /\ gst_mixer_signals = [e \in SignalEnum |-> 0]
  /\ (trace # <<>> /\ LastCall.op = "class_init") =>
       /\ klass = [s \in Slots |-> FALSE]
       /\ mixer_type = "GST_MIXER_SOFTWARE"
       /\ AllDefaults(klass)

C17_Witness ==
  /\ Len(trace) = 5
  /\ trace[1].op = "get_type"
  /\ trace[2].op = "class_init"
  /\ trace[3].op = "interface_init"
  /\ trace[3].val = [slots |-> [s \in Slots |-> TRUE],
                     mixer_type |-> "GST_MIXER_HARDWARE"]
  /\ trace[4].op = "get_type"
  /\ trace[5].op = "class_init"
  /\ trace[5].val = trace[3].val
  /\ klass = [s \in Slots |-> FALSE]
  /\ mixer_type = "GST_MIXER_SOFTWARE"
  /\ gst_mixer_signals = ClassInitSignals

====
